---------------------------- MODULE Spec2Model ----------------------------
(***************************************************************************)
(* Model of app.py: a FastAPI relay that validates a contact-form          *)
(* submission and forwards it to one Telegram chat, plus the /health       *)
(* endpoint.                                                               *)
(*                                                                         *)
(* Text is modelled as a run-length encoded string: a sequence of runs     *)
(* [ch, n], n copies of the token ch.  A 4097 character message is one     *)
(* run, so the 4096 limit of the code is kept as it is.                    *)
(***************************************************************************)
EXTENDS Integers, Sequences, FiniteSets, TLC

VARIABLES
    environ,            \* the process environment read by os.getenv
    httpExcStr,         \* the installed Starlette: does HTTPException define __str__
    proc,               \* "loading" | "running" | "crashed"
    TELEGRAM_BOT_TOKEN, \* module global, line 15
    TELEGRAM_CHAT_ID,   \* module global, line 16
    bot,                \* module global, line 18
    now,                \* the wall clock read by datetime.now(timezone.utc)
    pc,                 \* per request: position in send_message
    data,               \* per request: the MessageData body
    loc,                \* per request: the local variables of send_message
    call,               \* per request: the outbound bot.send_message call
    calls,              \* per request: number of outbound calls issued
    resp,               \* per request: the responses returned to the caller
    health              \* the last two /health responses, with the time of the call

vars == <<environ, httpExcStr, proc, TELEGRAM_BOT_TOKEN, TELEGRAM_CHAT_ID, bot,
          now, pc, data, loc, call, calls, resp, health>>

globals == <<environ, httpExcStr, proc, TELEGRAM_BOT_TOKEN, TELEGRAM_CHAT_ID, bot>>

-----------------------------------------------------------------------------
(* Bounds *)

MaxSec == 1          \* the clock runs over seconds 0..MaxSec
MaxUsec == 1         \* and microseconds 0..MaxUsec
NumRequests == 2     \* concurrent submissions in SpecConc

(* Program constants *)

MaxMessageLen == 4096
ClientTimeout == 30

None == "None"

-----------------------------------------------------------------------------
(* Strings *)

R(c, k) == [ch |-> c, n |-> k]
Lit(c) == <<R(c, 1)>>

Whitespace == {" ", "\t", "\n"}

(* number of characters in the first i runs *)
RECURSIVE LenUpTo(_, _)
LenUpTo(s, i) == IF i = 0 THEN 0 ELSE s[i].n + LenUpTo(s, i - 1)

StrLen(s) == LenUpTo(s, Len(s))

(* one run per character *)
Expand(s) ==
    IF \A i \in 1..Len(s) : s[i].n = 1 THEN s
    ELSE [k \in 1..StrLen(s) |->
            R(s[CHOOSE i \in 1..Len(s) : LenUpTo(s, i - 1) < k /\ k <= LenUpTo(s, i)].ch, 1)]

(* str.strip(): drops the leading and the trailing whitespace *)
Strip(s) ==
    LET keep == {i \in 1..Len(s) : s[i].ch \notin Whitespace /\ s[i].n > 0}
    IN  IF keep = {} THEN <<>>
        ELSE SubSeq(s, CHOOSE i \in keep : \A j \in keep : i <= j,
                       CHOOSE i \in keep : \A j \in keep : i >= j)

In(c, s) == \E i \in 1..Len(s) : s[i].ch = c /\ s[i].n > 0

(* str.split(sep) on a one-character separator: the segments between *)
(* the occurrences of sep, empty ones included                       *)
SplitRuns(s, sep) ==
    LET at == {i \in 1..Len(s) : s[i].ch = sep}
        cut(k) == IF k = 0 THEN 0
                  ELSE IF k > Cardinality(at) THEN Len(s) + 1
                  ELSE CHOOSE p \in at : Cardinality({q \in at : q < p}) = k - 1
    IN  [k \in 1..(Cardinality(at) + 1) |-> SubSeq(s, cut(k - 1) + 1, cut(k) - 1)]

Split(s, sep) == SplitRuns(Expand(s), sep)

Contains(s, sub) ==
    \E i \in 0..(Len(s) - Len(sub)) : SubSeq(s, i + 1, i + Len(sub)) = sub

HasPrefix(s, p) == Len(p) <= Len(s) /\ SubSeq(s, 1, Len(p)) = p

-----------------------------------------------------------------------------
(* Time *)

Times == [sec : 0..MaxSec, usec : 0..MaxUsec]

Later(t, u) == u.sec > t.sec \/ (u.sec = t.sec /\ u.usec > t.usec)

IsoFormat(t) ==
    Lit("2024-01-01T00:00:") \o Lit(ToString(t.sec))
    \o (IF t.usec = 0 THEN <<>> ELSE Lit(".") \o Lit(ToString(t.usec)))
    \o Lit("+00:00")

-----------------------------------------------------------------------------
(* Exceptions and responses *)

NoExc == [cls |-> "None", status |-> 0, detail |-> <<>>]

HTTPException(status_code, detail) ==
    [cls |-> "HTTPException", status |-> status_code, detail |-> detail]

TelegramError(detail) == [cls |-> "TelegramError", status |-> 0, detail |-> detail]

OtherError(detail) == [cls |-> "Exception", status |-> 0, detail |-> detail]

(* str(e).  A Starlette HTTPException renders as "<status>: <detail>" where *)
(* the class defines __str__, and as "" where it does not (it is built      *)
(* with keyword arguments only, so e.args is empty).                        *)
Str(e) ==
    IF e.cls = "HTTPException"
    THEN IF httpExcStr THEN Lit(ToString(e.status)) \o Lit(": ") \o e.detail
         ELSE <<>>
    ELSE e.detail

(* FastAPI answers a raised HTTPException with its status and {"detail"} *)
ErrorResponse(e) == [status |-> e.status, body |-> [detail |-> e.detail]]

SuccessResponse_wrong ==
    [status |-> 200, body |-> [success |-> FALSE, message |-> Lit("Message sent to Telegram")]]

SuccessResponse ==
    [status |-> 200, body |-> [success |-> TRUE, message |-> Lit("Message sent to Telegram")]]

(* except TelegramError as e, lines 97-99 *)
InnerExcept(e) == HTTPException(500, Lit("Failed to send message: ") \o Str(e))

(* except Exception as e, lines 100-102: catches every exception raised *)
(* in the try block, the HTTPExceptions of lines 66-70 and 99 included  *)
OuterExcept(e) == HTTPException(500, Lit("Server error: ") \o Str(e))

-----------------------------------------------------------------------------
(* Validation, lines 65-70 *)

Validate_nolength(name, email, message) ==
    IF name = <<>> \/ email = <<>> \/ message = <<>>
    THEN HTTPException(400, Lit("All fields must not be empty"))
    ELSE IF ~In("@", email) \/ ~In(".", Split(email, "@")[2])
    THEN HTTPException(400, Lit("Invalid email format"))
    ELSE NoExc

Validate(name, email, message) ==
    IF name = <<>> \/ email = <<>> \/ message = <<>>
    THEN HTTPException(400, Lit("All fields must not be empty"))
    ELSE IF StrLen(message) > MaxMessageLen
    THEN HTTPException(400, Lit("Message exceeds 4096 character limit"))
    ELSE IF ~In("@", email) \/ ~In(".", Split(email, "@")[2])
    THEN HTTPException(400, Lit("Invalid email format"))
    ELSE NoExc

(* lines 72-83 *)
Timestamp(t) == Split(IsoFormat(t), ".")[1] \o Lit(" UTC")

TelegramMessage(timestamp, name, email, message) ==
    Lit("*New Message*\n")
    \o Lit("_Received on: ") \o timestamp \o Lit("_\n")
    \o Lit("---\n")
    \o Lit("*Sender Details:*\n")
    \o Lit("- *Name:* ") \o name \o Lit("\n")
    \o Lit("- *Email:* ") \o email \o Lit("\n")
    \o Lit("---\n")
    \o Lit("*Message:*\n")
    \o message

(* line 34 *)
HealthTimestamp_seconds(t) == Split(IsoFormat(t), ".")[1] \o Lit(" UTC")

HealthTimestamp(t) == IsoFormat(t) \o Lit(" UTC")

-----------------------------------------------------------------------------
(* Inputs *)

Reqs == 1..NumRequests

Chars(cs) == [i \in 1..Len(cs) |-> R(cs[i], 1)]

Names == { <<R(" ", 2)>>, Lit("n"), <<R(" ", 1), R("n", 1), R("\t", 1)>> }

Emails ==
    { <<>>,
      Chars(<<"a">>),
      Chars(<<"a", "@", "b">>),
      Chars(<<"a", ".", "b", "@", "c">>),
      Chars(<<"a", "@">>),
      Chars(<<" ", "a", "@", "b", ".", "c", " ">>),
      Chars(<<"a", "@", "b", "@", "c", ".", "d">>),
      Chars(<<"a", "@", "b", ".", "c", "@", "d">>) }

Messages ==
    { <<R(" ", 3)>>,
      Lit("m"),
      <<R("x", MaxMessageLen)>>,
      <<R("x", MaxMessageLen + 1)>>,
      <<R(" ", 1), R("x", MaxMessageLen), R("\n", 1)>>,
      <<R("x", MaxMessageLen - 1), R(" ", 1), R("x", 1)>> }

Submissions == [name : Names, email : Emails, message : Messages]

ConcSubmissions ==
    { [name |-> Lit("alice"), email |-> Chars(<<"a", "@", "x", ".", "y">>),
       message |-> <<R(" ", 1), R("p", 3)>>],
      [name |-> Lit("bob"), email |-> Chars(<<"b", "@", "z", ".", "w">>),
       message |-> <<R("q", MaxMessageLen)>>],
      [name |-> Lit("carol"), email |-> Chars(<<"c", "@", "v">>),
       message |-> Lit("r")] }

Details == { "boom", "Unauthorized" }

ConcDetails == { "boom" }

NoData == [name |-> <<>>, email |-> <<>>, message |-> <<>>]

NoLocals ==
    [name |-> <<>>, email |-> <<>>, message |-> <<>>,
     timestamp |-> <<>>, telegram_message |-> <<>>]

NoCall ==
    [state |-> "none", chat_id |-> None, text |-> <<>>, parse_mode |-> None,
     disable_notification |-> FALSE, timeout |-> 0, exc |-> NoExc]

-----------------------------------------------------------------------------
(* Initial state: the module is about to be imported *)

Init ==
    /\ environ \in [token : {None, "123:abc"}, chat : {None, "42"}]
    /\ httpExcStr \in BOOLEAN
    /\ proc = "loading"
    /\ TELEGRAM_BOT_TOKEN = None
    /\ TELEGRAM_CHAT_ID = None
    /\ bot = None
    /\ now \in {t \in Times : t.sec = 0}
    /\ pc = [r \in Reqs |-> "idle"]
    /\ data = [r \in Reqs |-> NoData]
    /\ loc = [r \in Reqs |-> NoLocals]
    /\ call = [r \in Reqs |-> NoCall]
    /\ calls = [r \in Reqs |-> 0]
    /\ resp = [r \in Reqs |-> <<>>]
    /\ health = <<>>

(* Module import, lines 12-22.  Bot(token=None) raises (InvalidToken), *)
(* and an exception at import time ends the process.                   *)
Startup ==
    /\ proc = "loading"
    /\ TELEGRAM_BOT_TOKEN' = environ.token
    /\ TELEGRAM_CHAT_ID' = environ.chat
    /\ IF environ.token = None
       THEN proc' = "crashed" /\ bot' = bot
       ELSE proc' = "running" /\ bot' = [token |-> environ.token]
    /\ UNCHANGED <<environ, httpExcStr, now, pc, data, loc, call, calls, resp, health>>

Tick ==
    /\ \E t \in Times : Later(now, t) /\ now' = t
    /\ UNCHANGED <<globals, pc, data, loc, call, calls, resp, health>>

(* GET /health, lines 29-35 *)
health_check ==
    /\ proc = "running"
    /\ LET h == [status |-> "healthy",
                 message |-> "Telegram backend is running",
                 timestamp |-> HealthTimestamp(now),
                 at |-> now]
       IN  health' = IF Len(health) < 2 THEN Append(health, h) ELSE <<health[2], h>>
    /\ UNCHANGED <<globals, now, pc, data, loc, call, calls, resp>>

-----------------------------------------------------------------------------
(* POST /send-message, lines 58-102 *)

Receive(r, d) ==
    /\ proc = "running"
    /\ pc[r] = "idle"
    /\ pc' = [pc EXCEPT ![r] = "validate"]
    /\ data' = [data EXCEPT ![r] = d]
    /\ UNCHANGED <<globals, now, loc, call, calls, resp, health>>

(* lines 61-70, and 100-102 when a rule fails *)
ValidateStep(r) ==
    /\ pc[r] = "validate"
    /\ \E name \in {Strip(data[r].name)},
          email \in {Strip(data[r].email)},
          message \in {Strip(data[r].message)} :
         \E e \in {Validate(name, email, message)} :
            /\ loc' = [loc EXCEPT ![r].name = name, ![r].email = email,
                                  ![r].message = message]
            /\ IF e # NoExc
               THEN /\ resp' = [resp EXCEPT ![r] = Append(@, ErrorResponse(OuterExcept(e)))]
                    /\ pc' = [pc EXCEPT ![r] = "done"]
               ELSE /\ resp' = resp
                    /\ pc' = [pc EXCEPT ![r] = "render"]
    /\ UNCHANGED <<globals, now, data, call, calls, health>>

(* lines 72-83, with telegram_message kept in a module global *)
RenderStep_global(r) ==
    /\ pc[r] = "render"
    /\ \E timestamp \in {Timestamp(now)} :
         \E telegram_message \in
               {TelegramMessage(timestamp, loc[r].name, loc[r].email, loc[r].message)} :
            loc' = [q \in Reqs |->
                      IF q = r
                      THEN [loc[q] EXCEPT !.timestamp = timestamp,
                                          !.telegram_message = telegram_message]
                      ELSE [loc[q] EXCEPT !.telegram_message = telegram_message]]
    /\ pc' = [pc EXCEPT ![r] = "send"]
    /\ UNCHANGED <<globals, now, data, call, calls, resp, health>>

(* lines 72-83 *)
RenderStep(r) ==
    /\ pc[r] = "render"
    /\ \E timestamp \in {Timestamp(now)} :
         \E telegram_message \in
               {TelegramMessage(timestamp, loc[r].name, loc[r].email, loc[r].message)} :
            loc' = [loc EXCEPT ![r].timestamp = timestamp,
                               ![r].telegram_message = telegram_message]
    /\ pc' = [pc EXCEPT ![r] = "send"]
    /\ UNCHANGED <<globals, now, data, call, calls, resp, health>>

(* lines 85-94: the client, the Bot and the call are set up and the *)
(* handler suspends in await bot.send_message(...)                  *)
SendStep(r) ==
    /\ pc[r] = "send"
    /\ call' = [call EXCEPT ![r] =
                  [state |-> "inflight", chat_id |-> TELEGRAM_CHAT_ID,
                   text |-> loc[r].telegram_message, parse_mode |-> "Markdown",
                   disable_notification |-> TRUE, timeout |-> ClientTimeout,
                   exc |-> NoExc]]
    /\ calls' = [calls EXCEPT ![r] = @ + 1]
    /\ pc' = [pc EXCEPT ![r] = "await"]
    /\ UNCHANGED <<globals, now, data, loc, resp, health>>

(* lines 86-87 raise before the call is issued (the client or the Bot *)
(* cannot be constructed): caught at line 100                         *)
SetupFails(r, d) ==
    /\ pc[r] = "send"
    /\ call' = [call EXCEPT ![r].state = "setup_failed", ![r].exc = OtherError(Lit(d))]
    /\ resp' = [resp EXCEPT ![r] = Append(@, ErrorResponse(OuterExcept(OtherError(Lit(d)))))]
    /\ pc' = [pc EXCEPT ![r] = "done"]
    /\ UNCHANGED <<globals, now, data, loc, calls, health>>

(* The external client answers the pending call.  Telegram rejects a *)
(* call without a chat id.                                           *)
ExtReply(r, kind, d) ==
    /\ call[r].state = "inflight"
    /\ kind \in {"ok", "error", "exc"}
    /\ kind = "ok" => call[r].chat_id # None
    /\ call' = [call EXCEPT ![r].state = kind,
                            ![r].exc = CASE kind = "ok" -> NoExc
                                         [] kind = "error" -> TelegramError(Lit(d))
                                         [] kind = "exc" -> OtherError(Lit(d))]
    /\ UNCHANGED <<globals, now, pc, data, loc, calls, resp, health>>

(* no timeout configured on the client *)
Timeout_never(r) ==
    /\ call[r].state = "inflight"
    /\ FALSE
    /\ UNCHANGED vars

(* The client's timeout (line 86) expires on a call that got no answer: *)
(* the library raises TimedOut, a TelegramError                        *)
Timeout(r) ==
    /\ call[r].state = "inflight"
    /\ call[r].timeout > 0
    /\ call' = [call EXCEPT ![r].state = "timeout",
                            ![r].exc = TelegramError(Lit("Timed out"))]
    /\ UNCHANGED <<globals, now, pc, data, loc, calls, resp, health>>

(* lines 95-102: the await returns or raises *)
AwaitResult(c) ==
    IF c.state = "ok" THEN SuccessResponse
    ELSE IF c.exc.cls = "TelegramError"
    THEN ErrorResponse(OuterExcept(InnerExcept(c.exc)))
    ELSE ErrorResponse(OuterExcept(c.exc))

Resume(r) ==
    /\ pc[r] = "await"
    /\ call[r].state \in {"ok", "error", "exc", "timeout"}
    /\ resp' = [resp EXCEPT ![r] = Append(@, AwaitResult(call[r]))]
    /\ pc' = [pc EXCEPT ![r] = "done"]
    /\ UNCHANGED <<globals, now, data, loc, call, calls, health>>

Handler(r) ==
    \/ ValidateStep(r)
    \/ RenderStep(r)
    \/ SendStep(r)
    \/ Resume(r)

External(r, ds) ==
    \/ \E d \in ds : SetupFails(r, d)
    \/ \E k \in {"ok", "error", "exc"}, d \in ds : ExtReply(r, k, d)
    \/ Timeout(r)

-----------------------------------------------------------------------------
(* Specifications *)

(* One submission, every combination of the field inputs *)
Next ==
    \/ Startup
    \/ Tick
    \/ health_check
    \/ \E d \in Submissions : Receive(1, d)
    \/ Handler(1)
    \/ External(1, Details)

Spec == Init /\ [][Next]_vars

(* NumRequests concurrent submissions *)
NextConc ==
    \/ Startup
    \/ \E r \in Reqs, d \in ConcSubmissions : Receive(r, d)
    \/ \E r \in Reqs : Handler(r)
    \/ \E r \in Reqs : External(r, ConcDetails)

SpecConc == Init /\ [][NextConc]_vars

(* The event loop runs every handler step that is ready, and the client's *)
(* timer fires on a call that stays unanswered.  An answer from the       *)
(* external service is not guaranteed.                                    *)
Fairness ==
    \A r \in Reqs :
        /\ WF_vars(Handler(r))
        /\ WF_vars(Timeout(r))

InitLive == Init /\ now = [sec |-> 0, usec |-> 0]

FairSpec == InitLive /\ [][NextConc]_vars /\ Fairness

-----------------------------------------------------------------------------
(* Vocabulary of the properties *)

Done(r) == pc[r] = "done"

Blank(s) == \A i \in 1..Len(s) : s[i].ch \in Whitespace \/ s[i].n = 0

AnyBlank(d) == Blank(d.name) \/ Blank(d.email) \/ Blank(d.message)

TrimmedLen(s) == StrLen(Strip(s))

(* the text after the first '@' of an expanded string that has one *)
AfterFirstAt(s) ==
    LET i == CHOOSE k \in 1..Len(s) : s[k].ch = "@" /\ \A j \in 1..(k - 1) : s[j].ch # "@"
    IN  SubSeq(s, i + 1, Len(s))

BadEmail(e) ==
    LET s == Expand(Strip(e))
    IN  (\A i \in 1..Len(s) : s[i].ch # "@")
        \/ (\A i \in 1..Len(AfterFirstAt(s)) : AfterFirstAt(s)[i].ch # ".")

RuleFails(d) ==
    AnyBlank(d) \/ TrimmedLen(d.message) > MaxMessageLen \/ BadEmail(d.email)

Rejected(reason) == [status |-> 400, body |-> [detail |-> Lit(reason)]]

-----------------------------------------------------------------------------
(* C1: a finished submission with a field that is empty after trimming was *)
(* answered with status 400 and detail "All fields must not be empty".      *)
C1_EmptyAnswered400 ==
    \A r \in Reqs :
        Done(r) /\ AnyBlank(data[r])
            => resp[r] = <<Rejected("All fields must not be empty")>>

(* C2: a finished submission with three non-empty trimmed fields and a      *)
(* trimmed message longer than 4096 was answered with status 400 and the    *)
(* length reason, whatever its email; a trimmed message of exactly 4096     *)
(* characters was not answered with the length reason.                      *)
C2_LengthAnswered400 ==
    \A r \in Reqs :
        Done(r) /\ ~AnyBlank(data[r]) =>
            /\ TrimmedLen(data[r].message) > MaxMessageLen
                   => resp[r] = <<Rejected("Message exceeds 4096 character limit")>>
            /\ TrimmedLen(data[r].message) = MaxMessageLen
                   => \A i \in 1..Len(resp[r]) :
                          resp[r][i].status = 200
                          \/ ~Contains(resp[r][i].body.detail,
                                       Lit("Message exceeds 4096 character limit"))

(* C3: a finished submission that passes the emptiness and length rules was *)
(* answered with status 400 and "Invalid email format" exactly when its     *)
(* trimmed email has no '@' or no '.' after its first '@'.                  *)
C3_EmailAnswered400 ==
    \A r \in Reqs :
        Done(r) /\ ~AnyBlank(data[r]) /\ TrimmedLen(data[r].message) <= MaxMessageLen
            => (resp[r] = <<Rejected("Invalid email format")>> <=> BadEmail(data[r].email))

(* C4: a finished request whose delivery call reported success got exactly *)
(* one response, 200 with {success: true, message: "Message sent to        *)
(* Telegram"}, and its submission passes every rule.                       *)
C4_SuccessResponse ==
    \A r \in Reqs :
        Done(r) /\ call[r].state = "ok" =>
            /\ resp[r] = <<[status |-> 200,
                            body |-> [success |-> TRUE,
                                      message |-> Lit("Message sent to Telegram")]]>>
            /\ ~RuleFails(data[r])

C4_Witness == \E r \in Reqs : Done(r) /\ call[r].state = "ok" /\ Len(resp[r]) = 1

(* C5: a finished request whose delivery call raised a TelegramError with   *)
(* detail d got status 500 with a detail that contains d and that reports   *)
(* the delivery failure ("Failed to send message: ...").                    *)
C5_DeliveryFailure500 ==
    \A r \in Reqs :
        Done(r) /\ call[r].state = "error" =>
            /\ Len(resp[r]) = 1
            /\ resp[r][1].status = 500
            /\ Contains(resp[r][1].body.detail, call[r].exc.detail)
            /\ HasPrefix(resp[r][1].body.detail, Lit("Failed to send message: "))

(* C6: no request issues more than one outbound call, a request whose      *)
(* submission fails a rule issues none, and once the call has failed or    *)
(* the request is answered the number of calls never changes.              *)
C6_AtMostOneCall ==
    /\ [](\A r \in Reqs :
             /\ calls[r] <= 1
             /\ (pc[r] # "idle" /\ RuleFails(data[r])) => calls[r] = 0)
    /\ [][\A r \in Reqs :
             (Done(r) \/ call[r].state \in {"error", "exc", "timeout", "setup_failed"})
                 => calls'[r] = calls[r]]_vars

C6_Witness ==
    \E r \in Reqs : Done(r) /\ RuleFails(data[r]) /\ calls[r] = 0 /\ Len(resp[r]) = 1

(* C7: with the bot token or the chat id absent the process does not crash *)
(* and a finished valid submission was answered with status 500.           *)
C7_AbsentConfigNoCrash ==
    (environ.token = None \/ environ.chat = None) =>
        /\ proc # "crashed"
        /\ \A r \in Reqs :
               Done(r) /\ ~RuleFails(data[r]) =>
                   Len(resp[r]) = 1 /\ resp[r][1].status = 500

(* C8: every received request is eventually answered, with exactly one     *)
(* response and never more; a handler that cannot take a step is waiting   *)
(* for its outbound call; a call that timed out is answered with 500.      *)
C8_EventuallyOneResponse ==
    /\ \A r \in Reqs : (pc[r] = "validate") ~> (Done(r) /\ Len(resp[r]) = 1)
    /\ [](\A r \in Reqs :
             /\ Len(resp[r]) <= 1
             /\ (pc[r] \notin {"idle", "done"} /\ ~ENABLED Handler(r))
                    => call[r].state = "inflight"
             /\ (Done(r) /\ call[r].state = "timeout")
                    => resp[r][1].status = 500)

C8_Witness ==
    \E r \in Reqs :
        Done(r) /\ call[r].state = "timeout" /\ Len(resp[r]) = 1 /\ resp[r][1].status = 500

(* C9: two finished requests with the same submission and the same outcome *)
(* of their own delivery attempt got the same response; the notification   *)
(* of a request is rendered from its own trimmed fields and holds no field *)
(* of a different submission in flight; a running process never changes    *)
(* the module globals and a step leaves every other request's data,        *)
(* locals and responses alone.                                             *)
C9_Independent ==
    /\ [](\A r, q \in Reqs :
             (Done(r) /\ Done(q) /\ data[r] = data[q]
              /\ call[r].state = call[q].state /\ call[r].exc = call[q].exc)
                 => resp[r] = resp[q])
    /\ [](\A r \in Reqs :
             calls[r] = 1 =>
                 /\ call[r].text =
                        TelegramMessage(loc[r].timestamp, Strip(data[r].name),
                                        Strip(data[r].email), Strip(data[r].message))
                 /\ \A q \in Reqs :
                        (pc[q] # "idle" /\ data[q] # data[r]) =>
                            /\ ~Contains(call[r].text, Strip(data[q].name))
                            /\ ~Contains(call[r].text, Strip(data[q].email))
                            /\ ~Contains(call[r].text, Strip(data[q].message)))
    /\ [][/\ proc = "running" =>
                UNCHANGED <<proc, TELEGRAM_BOT_TOKEN, TELEGRAM_CHAT_ID, bot>>
          /\ \A q \in Reqs :
                (pc'[q] = pc[q] /\ call'[q] = call[q]) =>
                    (data'[q] = data[q] /\ loc'[q] = loc[q] /\ resp'[q] = resp[q])]_vars

C9_Witness ==
    \E r, q \in Reqs :
        /\ r # q /\ data[r] # data[q]
        /\ Done(r) /\ call[r].state = "ok"
        /\ Done(q) /\ call[q].state = "ok"

(* C10 as claimed: every /health response is "healthy" with the fixed      *)
(* description and a timestamp of second precision, without a fraction,    *)
(* that ends in " UTC".                                                    *)
C10_SecondPrecision ==
    \A i \in 1..Len(health) :
        /\ health[i].status = "healthy"
        /\ health[i].message = "Telegram backend is running"
        /\ ~In(".", health[i].timestamp)
        /\ health[i].timestamp[Len(health[i].timestamp)] = R(" UTC", 1)

(* C10 as amended: /health is always served by a running process; every    *)
(* response is "healthy" with the fixed description and the ISO rendering  *)
(* of the UTC time of the call, which carries the microsecond fraction     *)
(* whenever it is not zero, then the "+00:00" offset, then " UTC"; two     *)
(* responses differ in nothing but the timestamp.                          *)
C10_IsoTimestamp ==
    /\ proc = "running" => ENABLED health_check
    /\ \A i \in 1..Len(health) :
        /\ health[i].status = "healthy"
        /\ health[i].message = "Telegram backend is running"
        /\ health[i].timestamp =
               Lit("2024-01-01T00:00:") \o Lit(ToString(health[i].at.sec))
               \o (IF health[i].at.usec # 0
                   THEN Lit(".") \o Lit(ToString(health[i].at.usec)) ELSE <<>>)
               \o Lit("+00:00") \o Lit(" UTC")
        /\ In(".", health[i].timestamp) <=> health[i].at.usec # 0
    /\ \A i, j \in 1..Len(health) :
        [health[i] EXCEPT !.timestamp = <<>>, !.at = health[j].at]
            = [health[j] EXCEPT !.timestamp = <<>>]

C10_Witness ==
    /\ Len(health) = 2
    /\ health[1].timestamp # health[2].timestamp
    /\ health[2].at.usec # 0

=============================================================================
